---- MODULE Spec2Model ----
(***************************************************************************)
(* MathMaster Pro: the MainComponent state machine.                        *)
(*                                                                         *)
(* The repository holds three copies of MainComponent:                     *)
(*   src/MMP/content.js lines 370-1142                                     *)
(*   src/MMP/content.js lines 1476-2417, the same handlers plus the        *)
(*     Ctrl+Enter shortcut and the stored preferences                      *)
(*   src/unnamed/part_000, whose solveEquation calls the enrichment itself *)
(* The two copies of content.js are the version "content": a behaviour of  *)
(* the first copy is a behaviour of the second in which Ctrl+Enter is      *)
(* never pressed.  part_000 is the version "part0".                        *)
(*                                                                         *)
(* React state cells are the variables of the same name.  A handler or an  *)
(* async continuation runs to its next await as one action; the re-render  *)
(* and the effects it schedules belong to that action.  What a closure     *)
(* captured when an async function was invoked is kept in the request      *)
(* record of that invocation.                                              *)
(***************************************************************************)
EXTENDS Integers, Sequences, FiniteSets, TLC

(* ------------------------------ bounds -------------------------------- *)

\* solveEquation invocations that pass validation, per behaviour
MaxSolves == 2
\* chunks one stream delivers before it completes
MaxChunks == 1
\* solveEquation invocations per behaviour of SpecHistory
MaxHistorySolves == 7
\* handleImageUpload invocations per behaviour of SpecUpload
MaxUploads == 2
\* saveSolution, toggleFavorite and updateNotes invocations per behaviour of
\* SpecSaved
MaxMutations == 2
\* fragments a text of SpecTopic is made of
MaxFragments == 2

\* the longest final answer a response carries
MaxAnswerLen == 3

(* ----------------------------- constants ------------------------------ *)

HistoryCap == 5

Null == "null"
Undefined == "undefined"

ErrEmptyInput == "Please enter an equation to solve."
ErrInvalidFormat == "Received invalid response format. Please try again."
ErrIncomplete == "Received incomplete solution data. Please try again."
ErrStatus == "Server responded with status: 500"
ErrNetwork == "Failed to fetch"
ErrGeneric == "Sorry, there was a problem solving your equation."
ErrPractice == "Failed to generate practice problems"
ErrAlternative == "Failed to generate alternative methods"
ErrLoadSaved == "Failed to load saved solutions"
ErrSave == "Failed to save solution"
ErrFavorite == "Failed to update favorite status"
ErrNotes == "Failed to update notes"
ErrImage == "Failed to process the image. Please try again."

Versions == {"content", "part0"}

(* ------------------------------ strings ------------------------------- *)
\* A text is a sequence of one-character strings.

Whitespace == {" ", "\t", "\n"}

\* the characters U+222B and U+221A, written as names
IntegralSign == "INTEGRAL"
RootSign == "SQRT"

WordChars == {"a", "b", "c", "d", "i", "m", "n", "o", "r", "s", "t", "x",
              "0", "1", "2", "_"}

RECURSIVE TrimStart(_)
TrimStart(s) ==
  IF s # <<>> /\ Head(s) \in Whitespace THEN TrimStart(Tail(s)) ELSE s

RECURSIVE TrimEnd(_)
TrimEnd(s) ==
  IF s # <<>> /\ s[Len(s)] \in Whitespace
  THEN TrimEnd(SubSeq(s, 1, Len(s) - 1))
  ELSE s

\* String.prototype.trim
Trim(s) == TrimEnd(TrimStart(s))

\* sub occurs in s starting at position i
OccursAt(s, sub, i) ==
  /\ i >= 1
  /\ i + Len(sub) - 1 <= Len(s)
  /\ SubSeq(s, i, i + Len(sub) - 1) = sub

\* String.prototype.includes
Includes(s, sub) == \E i \in 1..(Len(s) + 1) : OccursAt(s, sub, i)

\* the regular expression assertion \b at the gap before position i
WordBoundary(s, i) ==
  LET before == i > 1 /\ i - 1 <= Len(s) /\ s[i - 1] \in WordChars
      after == i >= 1 /\ i <= Len(s) /\ s[i] \in WordChars
  IN before # after

\* input.match(/\b(sin|cos|tan)\b/) is not null
MatchesTrigWord(s) ==
  \E i \in 1..Len(s) :
    \E w \in {<<"s", "i", "n">>, <<"c", "o", "s">>, <<"t", "a", "n">>} :
      /\ OccursAt(s, w, i)
      /\ WordBoundary(s, i)
      /\ WordBoundary(s, i + 3)

\* input.includes("sin") || input.includes("cos") || input.includes("tan")
IncludesTrig(s) ==
  \/ Includes(s, <<"s", "i", "n">>)
  \/ Includes(s, <<"c", "o", "s">>)
  \/ Includes(s, <<"t", "a", "n">>)

detectMathTopic(ver, s) ==
  IF Includes(s, <<"=">>) THEN "Algebra"
  ELSE IF (IF ver = "part0" THEN IncludesTrig(s) ELSE MatchesTrigWord(s))
    THEN "Trigonometry"
  ELSE IF Includes(s, <<IntegralSign>>) \/ Includes(s, <<"d", "/", "d", "x">>)
    THEN "Calculus"
  ELSE IF Includes(s, <<RootSign>>) THEN "Roots"
  ELSE IF Includes(s, <<"%">>) THEN "Percentages"
  ELSE IF Includes(s, <<"m", "a", "t", "r", "i", "x">>) \/ Includes(s, <<"[">>)
    THEN "Matrices"
  ELSE "General Mathematics"

\* the characters cleanEquation removes, and the one-character strings a
\* final answer is made of
Backslash == "\\"
AnswerChars == {Backslash, "{", "}", "$", "x", "2"}

\* String.prototype.replace with a pattern that has no g flag: only the
\* first match is replaced by ""
ReplaceFirstOnly(s, chars) ==
  LET idx == {i \in 1..Len(s) : s[i] \in chars}
  IN IF idx = {} THEN s
     ELSE LET m == CHOOSE i \in idx : \A j \in idx : i <= j
          IN SubSeq(s, 1, m - 1) \o SubSeq(s, m + 1, Len(s))

\* str.replace(/.../g, ""): every match of a one-character pattern is
\* replaced by ""
Replace(s, chars) == SelectSeq(s, LAMBDA c : c \notin chars)

\* str.replace(/\\/g, "").replace(/\{|\}/g, "").replace(/\$/g, "")
cleanEquation(str) ==
  Replace(Replace(Replace(str, {Backslash}), {"{", "}"}), {"$"})

(* --------------------------- JSON payloads ---------------------------- *)
\* The accumulated text of a completed stream: json says whether JSON.parse
\* accepts it; the other fields describe the value it parses to (obj FALSE
\* is the JSON value null).  A missing property reads as undefined.

Payload(j, o, hs, st, ha, fa) ==
  [json |-> j, obj |-> o, hasSteps |-> hs, steps |-> st,
   hasAnswer |-> ha, final_answer |-> fa]

SomeSteps == <<"step1">>
SomeAnswer == <<"4", "2">>

MsgNotJson == Payload(FALSE, FALSE, FALSE, <<>>, FALSE, <<>>)
MsgNull == Payload(TRUE, FALSE, FALSE, <<>>, FALSE, <<>>)
MsgNoSteps == Payload(TRUE, TRUE, FALSE, <<>>, TRUE, SomeAnswer)
MsgNoAnswer == Payload(TRUE, TRUE, TRUE, SomeSteps, FALSE, <<>>)
MsgEmptySteps == Payload(TRUE, TRUE, TRUE, <<>>, TRUE, SomeAnswer)
MsgEmptyAnswer == Payload(TRUE, TRUE, TRUE, SomeSteps, TRUE, <<>>)
MsgValid == Payload(TRUE, TRUE, TRUE, SomeSteps, TRUE, SomeAnswer)

Messages == {MsgNotJson, MsgNull, MsgNoSteps, MsgNoAnswer, MsgEmptySteps,
             MsgEmptyAnswer, MsgValid}

\* a parser that reports failure by returning null instead of throwing
JSONParseReturnsNull(m) == FALSE

\* JSON.parse(message) throws a SyntaxError
JSONParseThrows(m) == ~m.json

\* the truthiness of parsed?.steps: undefined is falsy, every array is truthy
StepsTruthy(p) == p.obj /\ p.hasSteps

\* the truthiness of parsed?.final_answer: undefined and "" are falsy
AnswerTruthy(p) == p.obj /\ p.hasAnswer /\ p.final_answer # <<>>

\* the validation without its final_answer test
IsIncompleteStepsOnly(p) == ~StepsTruthy(p)

\* !parsed?.steps || !parsed?.final_answer
IsIncomplete(p) == ~StepsTruthy(p) \/ ~AnswerTruthy(p)

\* the Solution object a parse yields; rid is the identity of the object
\* (each JSON.parse returns a fresh object), 0 for null
Parsed(m, r) ==
  [rid |-> r, hasSteps |-> m.hasSteps, steps |-> m.steps,
   hasAnswer |-> m.hasAnswer, final_answer |-> m.final_answer]

NoSolution ==
  [rid |-> 0, hasSteps |-> FALSE, steps |-> <<>>,
   hasAnswer |-> FALSE, final_answer |-> <<>>]

\* Array.prototype.slice(-n)
SliceLast(s, n) == IF Len(s) <= n THEN s ELSE SubSeq(s, Len(s) - n + 1, Len(s))

\* [...prev, entry].slice(0, 5)
HistoryAppendFirstFive(prev, entry) ==
  SubSeq(Append(prev, entry), 1,
         IF Len(prev) + 1 <= HistoryCap THEN Len(prev) + 1 ELSE HistoryCap)

\* [...prev, entry].slice(-5)
HistoryAppend(prev, entry) == SliceLast(Append(prev, entry), HistoryCap)

\* what onFinish does with the message
OnFinishOutcome(m) ==
  IF JSONParseThrows(m) THEN "invalid"
  ELSE IF IsIncomplete(m) THEN "incomplete"
  ELSE "committed"

(* ------------------------------- state -------------------------------- *)

VARIABLES
  version,                \* which copy of MainComponent runs
  input,                  \* useState("")
  solution,               \* useState(null)
  error,                  \* useState(null)
  loading,                \* useState(false)
  streamingResponse,      \* useState("")
  history,                \* useState([])
  mathTopic,              \* useState("")
  showAlternativeMethods, \* useState(false)
  alternativeSolutions,   \* useState([])
  practiceProblems,       \* useState([])
  showPractice,           \* useState(false)
  currentModel,           \* useState("gemini")
  savedSolutions,         \* useState([])
  reqs,                   \* the solveEquation invocations that passed validation
  enrich,                 \* enrichment requests in flight
  fetching,               \* fetchSavedSolutions requests in flight
  commits,                \* every HistoryEntry onFinish appended, in order
  file,                   \* useState(null)
  previewImage,           \* useState(null)
  ups,                    \* the handleImageUpload invocations
  dropped,                \* the FileList of the drop event handled last
  notes,                  \* useState("")
  pers,                   \* the saveSolution / toggleFavorite / updateNotes
                          \* invocations
  server,                 \* the collection the persistence endpoint holds
  snaps,                  \* the collections the endpoint has read for the
                          \* fetch-all requests whose responses are on the way
  keyModel,               \* currentModel as the keydown handler in effect
                          \* captured it
  theme,                  \* useState("system")
  fontSize,               \* useState("base")
  highContrast,           \* useState(false)
  storage,                \* the localStorage item "mathmaster_prefs"
  mounted,                \* how far the effects of the first render have run
  storedAtMount           \* the localStorage item as it was before the mount

\* the state of the image path
uploadVars == <<file, previewImage, ups, dropped>>

\* the state of the saved-solutions path, the cache and the fetch-all
\* requests apart
savedVars == <<notes, pers, server, snaps>>

\* the preference cells and their storage
prefVars == <<theme, fontSize, highContrast, storage, mounted, storedAtMount>>

vars ==
  <<version, input, solution, error, loading, streamingResponse, history,
    mathTopic, showAlternativeMethods, alternativeSolutions, practiceProblems,
    showPractice, currentModel, savedSolutions, reqs, enrich, fetching,
    commits, uploadVars, savedVars, prefVars, keyModel>>

\* the texts the user types
Texts == {<<>>, <<" ">>, <<"x", "=", "1">>}

\* a File object: its name and its MIME type; NoFile is null
NoFile == [name |-> "", type |-> <<>>]

\* the streaming buffer: the accumulated text of request rid after len chunks;
\* EmptyBuffer is ""
Buffer(r, n) == [rid |-> r, len |-> n]
EmptyBuffer == Buffer(0, 0)

\* a list state cell: an array, or undefined
List(items) == [defined |-> TRUE, items |-> items]
UndefinedList == [defined |-> FALSE, items |-> <<>>]

\* a SavedSolution, as far as the component reads it
SavedItem(id, fav, n) == [id |-> id, is_favorite |-> fav, notes |-> n]

\* the collection the endpoint holds when the component mounts
ServerCollection == <<SavedItem(1, FALSE, <<>>), SavedItem(2, TRUE, <<"n">>)>>

Rids == 1..Len(reqs)

\* The localStorage item "mathmaster_prefs": kind is "absent" (getItem
\* returns null), "garbage" (a string JSON.parse rejects), "null" (the JSON
\* text null) or "object"; an object has the keys in keys, the other fields
\* hold fillers.
PrefKeys == {"theme", "fontSize", "highContrast"}

ObjectItem(keys, t, f, h) ==
  [kind |-> "object", keys |-> keys,
   theme |-> IF "theme" \in keys THEN t ELSE "",
   fontSize |-> IF "fontSize" \in keys THEN f ELSE "",
   highContrast |-> IF "highContrast" \in keys THEN h ELSE FALSE]

OtherItem(kind) ==
  [kind |-> kind, keys |-> {}, theme |-> "", fontSize |-> "",
   highContrast |-> FALSE]

AbsentItem == OtherItem("absent")

\* the values of the three state cells as one object
Prefs(t, f, h) == [theme |-> t, fontSize |-> f, highContrast |-> h]

DefaultPrefs == Prefs("system", "base", FALSE)

\* savePrefs(prefs): the item after setItem(key, JSON.stringify(prefs))
savePrefs(prefs) ==
  ObjectItem(PrefKeys, prefs.theme, prefs.fontSize, prefs.highContrast)

\* loadPrefs(): JSON.parse(getItem(key)) || {}, and {} when parse throws
loadPrefs(item) ==
  IF item.kind = "object" THEN item ELSE ObjectItem({}, "", "", FALSE)

\* prefs.theme || "system", prefs.fontSize || "base", !!prefs.highContrast
Restored(item) ==
  LET prefs == loadPrefs(item)
  IN Prefs(IF "theme" \in prefs.keys /\ prefs.theme # ""
             THEN prefs.theme ELSE "system",
           IF "fontSize" \in prefs.keys /\ prefs.fontSize # ""
             THEN prefs.fontSize ELSE "base",
           "highContrast" \in prefs.keys /\ prefs.highContrast)

\* the state cells after the first render, the input apart, with nothing
\* requested yet
FirstRender(text) ==
  /\ version \in Versions
  /\ input = text
  /\ solution = NoSolution
  /\ error = Null
  /\ loading = FALSE
  /\ streamingResponse = EmptyBuffer
  /\ history = <<>>
  /\ mathTopic = ""
  /\ showAlternativeMethods = FALSE
  /\ alternativeSolutions = List(<<>>)
  /\ practiceProblems = List(<<>>)
  /\ showPractice = FALSE
  /\ currentModel = "gemini"
  /\ savedSolutions = <<>>
  /\ reqs = <<>>
  /\ enrich = {}
  /\ commits = <<>>
  /\ file = NoFile
  /\ previewImage = Null
  /\ ups = <<>>
  /\ dropped = <<>>
  /\ notes = <<>>
  /\ pers = <<>>
  /\ server = ServerCollection
  /\ snaps = <<>>
  /\ keyModel = "gemini"
  /\ theme = DefaultPrefs.theme
  /\ fontSize = DefaultPrefs.fontSize
  /\ highContrast = DefaultPrefs.highContrast

\* the state after the first render and its effects, the input apart: the
\* mount effect has called fetchSavedSolutions; nothing was stored, and the
\* preference effects have run
InitWith(text) ==
  /\ FirstRender(text)
  /\ fetching = 1
  /\ storage = savePrefs(DefaultPrefs)
  /\ mounted = "settled"
  /\ storedAtMount = AbsentItem

Init == InitWith(<<>>)

(* ---------------------------- user events ----------------------------- *)

\* textarea onChange
SetInput(t) ==
  /\ t # input
  /\ input' = t
  /\ keyModel' = currentModel
  /\ UNCHANGED <<uploadVars, savedVars, prefVars>>
  /\ UNCHANGED <<version, solution, error, loading, streamingResponse, history,
       mathTopic, showAlternativeMethods, alternativeSolutions,
       practiceProblems, showPractice, currentModel, savedSolutions, reqs,
       enrich, fetching, commits>>

\* the model toggle button
ToggleModel ==
  /\ currentModel' = IF currentModel = "gemini" THEN "gpt" ELSE "gemini"
  /\ UNCHANGED <<uploadVars, savedVars, prefVars, keyModel>>
  /\ UNCHANGED <<version, input, solution, error, loading, streamingResponse,
       history, mathTopic, showAlternativeMethods, alternativeSolutions,
       practiceProblems, showPractice, savedSolutions, reqs, enrich, fetching,
       commits>>

\* the clear button, rendered while input is truthy
clearAll ==
  /\ input # <<>> /\ input # <<Undefined>>
  /\ input' = <<>>
  /\ solution' = NoSolution
  /\ error' = Null
  /\ file' = NoFile
  /\ previewImage' = Null
  /\ keyModel' = currentModel
  /\ UNCHANGED <<ups, dropped, savedVars, prefVars>>
  /\ UNCHANGED <<version, loading, streamingResponse, history, mathTopic,
       showAlternativeMethods, alternativeSolutions, practiceProblems,
       showPractice, currentModel, savedSolutions, reqs, enrich, fetching,
       commits>>

(* --------------------------- solveEquation ---------------------------- *)

\* !text
EmptyUntrimmed(text) == text = <<>>

\* !text.trim()
TrimmedEmpty(text) == Trim(text) = <<>>

Endpoint(model) ==
  IF model = "gemini" THEN "/integrations/google-gemini-1-5/"
  ELSE "/integrations/chat-gpt/conversationgpt4"

\* The record of one invocation: the request it sent and what its closures
\* captured.  st: "fetch" (awaiting fetch), "stream" (awaiting
\* handleStreamResponse), "enrich" (part0: awaiting Promise.all), "done".
\* held is the solution of the render solveEquation was created in (its rid,
\* 0 for null), cin that render's input, hin the input onFinish reads.
\* before, outcome, nPractice and nAlternative record what the invocation
\* did: the solution held when onFinish ran, how onFinish ended, and the
\* enrichment requests sent for it.
NewRequestIn(text, env) ==
  [st |-> "fetch",
   text |-> text,
   endpoint |-> Endpoint(env.model),
   held |-> env.held,
   cin |-> env.cin,
   hin |-> <<>>,
   chunks |-> 0,
   before |-> 0,
   outcome |-> "none",
   nPractice |-> 0,
   nAlternative |-> 0]

\* what the functions created in the current render have captured
Closure == [held |-> solution.rid, cin |-> input, model |-> currentModel]

NewRequest(text) == NewRequestIn(text, Closure)

\* a show flag after the resets at the head of solveEquation
ShowAfterSolveStart(ver, shown) == IF ver = "part0" THEN shown ELSE FALSE

\* solveEquation without its setSolution(null)
SolutionKeptAtSolveStart(sol) == sol

\* the Solution state after the resets at the head of solveEquation
SolutionAfterSolveStart(sol) == NoSolution

\* the text the transcription yields when the answer carries no content
UndefinedText == <<Undefined>>

\* solveEquation(text) up to its first await, as the function created in a
\* render that captured env.  The input cell and the cells of the image path
\* are written by its callers only.  undefined.trim() is a TypeError: the
\* promise solveEquation returns rejects and no state is written.
solveEquationIn(text, limit, env) ==
  IF text = UndefinedText
  THEN UNCHANGED <<savedVars, prefVars, version, solution, error, loading,
         streamingResponse, history, mathTopic, showAlternativeMethods,
         alternativeSolutions, practiceProblems, showPractice, currentModel,
         savedSolutions, reqs, enrich, fetching, commits>>
  ELSE IF TrimmedEmpty(text)
  THEN /\ error' = ErrEmptyInput
       /\ UNCHANGED <<savedVars, prefVars, version, solution, loading,
            streamingResponse, history, mathTopic, showAlternativeMethods,
            alternativeSolutions, practiceProblems, showPractice, currentModel,
            savedSolutions, reqs, enrich, fetching, commits>>
  ELSE /\ Len(reqs) < limit
       /\ loading' = TRUE
       /\ error' = Null
       /\ solution' = SolutionAfterSolveStart(solution)
       /\ streamingResponse' = EmptyBuffer
       /\ mathTopic' = detectMathTopic(version, text)
       /\ showAlternativeMethods' =
            ShowAfterSolveStart(version, showAlternativeMethods)
       /\ showPractice' = ShowAfterSolveStart(version, showPractice)
       /\ reqs' = Append(reqs, NewRequestIn(text, env))
       /\ UNCHANGED <<savedVars, prefVars, version, history, alternativeSolutions,
            practiceProblems, currentModel, savedSolutions, enrich, fetching,
            commits>>

\* solveEquation(text), called from the current render
solveEquation(text, limit) ==
  /\ solveEquationIn(text, limit, Closure)
  /\ UNCHANGED <<input, keyModel, uploadVars>>

\* the truthiness of a text cell: "" and undefined are falsy
TextTruthy(t) == t # <<>> /\ t # UndefinedText

\* the Solve button: disabled={loading || !input}
ClickSolve(limit) ==
  /\ ~loading
  /\ TextTruthy(input)
  /\ solveEquation(input, limit)

\* what the keydown handler in effect has captured: the effect that installs
\* it has the dependency list [input], so the handler and the solveEquation
\* it calls are those of the render that followed the last change of input
KeyClosure == [Closure EXCEPT !.model = keyModel]

\* handleKeyDown, Ctrl+Enter (second copy of content.js)
CtrlEnter(limit) ==
  /\ version = "content"
  /\ solveEquationIn(input, limit, KeyClosure)
  /\ UNCHANGED <<input, keyModel, uploadVars>>

\* a catch block that reports the generic message whatever was thrown
CaughtMessageGeneric(message) == ErrGeneric

\* err.message || "Sorry, ..."
CaughtMessage(message) == IF message = "" THEN ErrGeneric ELSE message

SetReq(r, rec) == [reqs EXCEPT ![r] = rec]

\* the thrown error's message when the solve request does not yield a stream
SolveFailures == {ErrStatus, ErrNetwork}

\* useHandleStreamResponse: the function it returns runs the callbacks of
\* the latest render, so the input onFinish reads is the input cell as it is
\* when handleStreamResponse is entered
HandlerInput == input

\* fetch(endpoint) resolves with response.ok: handleStreamResponse(response)
\* is entered with the onFinish of the latest render
SolveResponseOk(r) ==
  /\ r \in Rids
  /\ reqs[r].st = "fetch"
  /\ reqs' = SetReq(r, [reqs[r] EXCEPT !.st = "stream", !.hin = HandlerInput])
  /\ UNCHANGED <<uploadVars, savedVars, prefVars, keyModel>>
  /\ UNCHANGED <<version, input, solution, error, loading, streamingResponse,
       history, mathTopic, showAlternativeMethods, alternativeSolutions,
       practiceProblems, showPractice, currentModel, savedSolutions, enrich,
       fetching, commits>>

\* the catch and finally blocks of solveEquation
SolveCatch(r, message, outcome) ==
  /\ error' = CaughtMessage(message)
  /\ loading' = FALSE
  /\ reqs' = SetReq(r, [reqs[r] EXCEPT !.st = "done", !.outcome = outcome,
                                       !.chunks = 0])
  /\ UNCHANGED <<uploadVars, savedVars, prefVars, keyModel>>
  /\ UNCHANGED <<version, input, solution, streamingResponse, history,
       mathTopic, showAlternativeMethods, alternativeSolutions,
       practiceProblems, showPractice, currentModel, savedSolutions, enrich,
       fetching, commits>>

\* fetch(endpoint) rejects, or resolves with a non-2xx status
SolveResponseFail(r, message) ==
  /\ r \in Rids
  /\ reqs[r].st = "fetch"
  /\ SolveCatch(r, message, "transport")

\* onChunk(chunk): the chunk is the whole text accumulated so far
StreamChunk(r) ==
  /\ r \in Rids
  /\ reqs[r].st = "stream"
  /\ reqs[r].chunks < MaxChunks
  /\ streamingResponse' = Buffer(r, reqs[r].chunks + 1)
  /\ reqs' = SetReq(r, [reqs[r] EXCEPT !.chunks = @ + 1])
  /\ UNCHANGED <<uploadVars, savedVars, prefVars, keyModel>>
  /\ UNCHANGED <<version, input, solution, error, loading, history, mathTopic,
       showAlternativeMethods, alternativeSolutions, practiceProblems,
       showPractice, currentModel, savedSolutions, enrich, fetching, commits>>

\* useHandleStreamResponse: a stream that breaks before it completes rejects
\* the promise handleStreamResponse returned, and onFinish is not called
StreamRejects(r) ==
  /\ r \in Rids
  /\ reqs[r].st = "stream"

\* the stream breaks: the catch and finally blocks of solveEquation
StreamError(r, message) ==
  /\ StreamRejects(r)
  /\ SolveCatch(r, message, "broken")

\* the two enrichment requests, as sent for request r with problem text inp
EnrichmentPair(r, inp) ==
  {[kind |-> "practice", owner |-> r, inp |-> inp],
   [kind |-> "alternative", owner |-> r, inp |-> inp]}

\* whether enrichment is requested when request r's stream has completed:
\* part0 tests the solution of the render solveEquation was created in,
\* content runs the effect on [solution] after a commit
IssuesEnrichment(ver, rec, outcome) ==
  IF ver = "part0" THEN rec.held # 0 ELSE outcome = "committed"

\* a guard that discards the completion of a superseded request
CommitsIfLatest(r, outcome) == outcome = "committed" /\ r = Len(reqs)

\* whether onFinish of request r commits: the validation of the payload is
\* its only condition, the request that completes is not compared with the
\* one issued last
Commits(r, outcome) == outcome = "committed"

\* the error slot after onFinish
ErrorAfterFinish(outcome, err) ==
  CASE outcome = "invalid" -> ErrInvalidFormat
    [] outcome = "incomplete" -> ErrIncomplete
    [] OTHER -> err

\* onFinish(message), then the rest of solveEquation up to its next await,
\* then the effect on [solution]
StreamFinish(r, m) ==
  LET rec == reqs[r]
      outcome == OnFinishOutcome(m)
      parsed == Parsed(m, r)
      entry == [input |-> rec.hin, solution |-> parsed,
                timestamp |-> Len(commits) + 1]
      issues == IssuesEnrichment(version, rec, outcome)
      \* part0 passes no argument: the input of solveEquation's render;
      \* content: the effect passes the input of the render after the commit
      inp == IF version = "part0" THEN rec.cin ELSE input
      awaits == version = "part0" /\ issues
  IN
  /\ r \in Rids
  /\ rec.st = "stream"
  /\ streamingResponse' = EmptyBuffer
  /\ error' = ErrorAfterFinish(outcome, error)
  /\ solution' = IF Commits(r, outcome) THEN parsed ELSE solution
  /\ history' = IF Commits(r, outcome)
                THEN HistoryAppend(history, entry) ELSE history
  /\ commits' = IF Commits(r, outcome) THEN Append(commits, entry) ELSE commits
  /\ enrich' = IF issues THEN enrich \cup EnrichmentPair(r, inp) ELSE enrich
  /\ loading' = IF awaits THEN loading ELSE FALSE
  /\ reqs' = SetReq(r, [rec EXCEPT
                 !.st = IF awaits THEN "enrich" ELSE "done",
                 !.outcome = outcome,
                 !.chunks = 0,
                 !.before = solution.rid,
                 !.nPractice = IF issues THEN @ + 1 ELSE @,
                 !.nAlternative = IF issues THEN @ + 1 ELSE @])
  /\ UNCHANGED <<uploadVars, savedVars, prefVars, keyModel>>
  /\ UNCHANGED <<version, input, mathTopic, showAlternativeMethods,
       alternativeSolutions, practiceProblems, showPractice, currentModel,
       savedSolutions, fetching>>

(* ---------------------------- enrichment ------------------------------ *)

\* How an enrichment round trip can end:
\*   "neterr"    fetch rejects
\*   "non2xx"    !response.ok
\*   "badjson"   response.json() rejects
\*   "nochoices" data.choices[0].message.content does not exist (TypeError)
\*   "nofield"   content exists but has no problems / methods property
\*   "ok"        content carries the list
EnrichResults == {"neterr", "non2xx", "badjson", "nochoices", "nofield", "ok"}

\* the try block of generatePracticeProblems / generateAlternativeMethods
\* throws and control reaches its catch
EnrichThrows(result) == result \in {"neterr", "non2xx", "badjson", "nochoices"}

\* data.choices[0].message.content.problems (or .methods): the list generated
\* for the request of e.owner, or undefined
ContentList(e, result) ==
  IF result = "ok" THEN List(<<e.owner>>) ELSE UndefinedList

\* part0: Promise.all settles when the last of the owner's two requests does,
\* and solveEquation runs on to its finally block
OwnerResumes(e) ==
  /\ version = "part0"
  /\ reqs[e.owner].st = "enrich"
  /\ \A o \in enrich \ {e} : o.owner # e.owner

AfterEnrichment(e) ==
  /\ enrich' = enrich \ {e}
  /\ IF OwnerResumes(e)
     THEN /\ loading' = FALSE
          /\ reqs' = SetReq(e.owner, [reqs[e.owner] EXCEPT !.st = "done"])
     ELSE UNCHANGED <<loading, reqs>>

\* the response handler without its setShow...(true)
ShownUnchanged(shown) == shown

\* the show flag after a response that did not throw
ShownAfterResponse(shown) == TRUE

\* generatePracticeProblems from the response on
PracticeResponse(e, result) ==
  /\ e \in enrich
  /\ e.kind = "practice"
  /\ IF EnrichThrows(result)
     THEN /\ error' = ErrPractice
          /\ UNCHANGED <<practiceProblems, showPractice>>
     ELSE /\ practiceProblems' = ContentList(e, result)
          /\ showPractice' = ShownAfterResponse(showPractice)
          /\ UNCHANGED error
  /\ AfterEnrichment(e)
  /\ UNCHANGED <<uploadVars, savedVars, prefVars, keyModel>>
  /\ UNCHANGED <<version, input, solution, streamingResponse, history,
       mathTopic, showAlternativeMethods, alternativeSolutions, currentModel,
       savedSolutions, fetching, commits>>

\* generateAlternativeMethods from the response on
AlternativeResponse(e, result) ==
  /\ e \in enrich
  /\ e.kind = "alternative"
  /\ IF EnrichThrows(result)
     THEN /\ error' = ErrAlternative
          /\ UNCHANGED <<alternativeSolutions, showAlternativeMethods>>
     ELSE /\ alternativeSolutions' = ContentList(e, result)
          /\ showAlternativeMethods' = ShownAfterResponse(showAlternativeMethods)
          /\ UNCHANGED error
  /\ AfterEnrichment(e)
  /\ UNCHANGED <<uploadVars, savedVars, prefVars, keyModel>>
  /\ UNCHANGED <<version, input, solution, streamingResponse, history,
       mathTopic, practiceProblems, showPractice, currentModel, savedSolutions,
       fetching, commits>>

(* ------------------------- fetchSavedSolutions ------------------------ *)

FetchResults == {"neterr", "non2xx", "badjson", "ok"}

\* fetchSavedSolutions from the response on
FetchSavedResponse(result) ==
  /\ fetching > Len(snaps)
  /\ fetching' = fetching - 1
  /\ IF result = "ok"
     THEN /\ savedSolutions' = server
          /\ UNCHANGED error
     ELSE /\ error' = ErrLoadSaved
          /\ UNCHANGED savedSolutions
  /\ UNCHANGED <<uploadVars, savedVars, prefVars, keyModel>>
  /\ UNCHANGED <<version, input, solution, loading, streamingResponse, history,
       mathTopic, showAlternativeMethods, alternativeSolutions,
       practiceProblems, showPractice, currentModel, reqs, enrich, commits>>

\* the endpoint answers a fetch-all request with the collection it holds;
\* the response is on its way
ServerReadsAll ==
  /\ Len(snaps) < fetching
  /\ snaps' = Append(snaps, server)
  /\ UNCHANGED <<uploadVars, notes, pers, server, prefVars, keyModel>>
  /\ UNCHANGED <<version, input, solution, error, loading, streamingResponse,
       history, mathTopic, showAlternativeMethods, alternativeSolutions,
       practiceProblems, showPractice, currentModel, savedSolutions, reqs,
       enrich, fetching, commits>>

\* a sequence without its element i
RemoveAt(seq, i) == SubSeq(seq, 1, i - 1) \o SubSeq(seq, i + 1, Len(seq))

\* fetchSavedSolutions from a successful response on, the response being
\* one that was on its way: setSavedSolutions(data)
FetchSavedDelayed(i) ==
  /\ i \in 1..Len(snaps)
  /\ fetching' = fetching - 1
  /\ savedSolutions' = snaps[i]
  /\ snaps' = RemoveAt(snaps, i)
  /\ UNCHANGED <<uploadVars, notes, pers, server, prefVars, keyModel>>
  /\ UNCHANGED <<version, input, solution, error, loading, streamingResponse,
       history, mathTopic, showAlternativeMethods, alternativeSolutions,
       practiceProblems, showPractice, currentModel, reqs, enrich, commits>>

(* ------------------------- saved-solution mutations ------------------- *)

\* the texts typed into a notes field
NoteTexts == {<<>>, <<"n">>, <<"m">>}

\* the notes field below a solution
SetNotes(t) ==
  /\ t # notes
  /\ notes' = t
  /\ UNCHANGED <<uploadVars, pers, server, snaps, prefVars, keyModel>>
  /\ UNCHANGED <<version, input, solution, error, loading, streamingResponse,
       history, mathTopic, showAlternativeMethods, alternativeSolutions,
       practiceProblems, showPractice, currentModel, savedSolutions, reqs,
       enrich, fetching, commits>>

Pids == 1..Len(pers)

\* The record of one mutation: op is "create", "favorite" or "notes", body
\* the JSON body it posted, st "fetch" (awaiting fetch) or "done"; refetches
\* counts the fetchSavedSolutions calls it made.
NewMutation(op, body) ==
  [op |-> op, st |-> "fetch", body |-> body, refetches |-> 0]

\* a mutation up to its await
Mutate(op, body, limit) ==
  /\ Len(pers) < limit
  /\ pers' = Append(pers, NewMutation(op, body))
  /\ UNCHANGED <<uploadVars, notes, server, snaps, prefVars, keyModel>>
  /\ UNCHANGED <<version, input, solution, error, loading, streamingResponse,
       history, mathTopic, showAlternativeMethods, alternativeSolutions,
       practiceProblems, showPractice, currentModel, savedSolutions, reqs,
       enrich, fetching, commits>>

saveSolution(limit) ==
  Mutate("create",
         [method |-> "POST", equation |-> input, solution |-> solution.rid,
          notes |-> notes],
         limit)

\* a body that carries the flag as it is
FavoriteBodyKept(id, currentStatus) ==
  [method |-> "PATCH", id |-> id, is_favorite |-> currentStatus]

\* {method: "PATCH", id, is_favorite: !currentStatus}
FavoriteBody(id, currentStatus) ==
  [method |-> "PATCH", id |-> id, is_favorite |-> ~currentStatus]

toggleFavorite(id, currentStatus, limit) ==
  Mutate("favorite", FavoriteBody(id, currentStatus), limit)

updateNotes(id, newNotes, limit) ==
  Mutate("notes", [method |-> "PATCH", id |-> id, notes |-> newNotes], limit)

\* How a mutation's fetch can end: it rejects ("neterr"), or it resolves with
\* a non-2xx status or with a 2xx status
MutationResults == {"neterr", "non2xx", "ok"}

\* the message of the mutation's catch block
MutationError(op) ==
  CASE op = "create" -> ErrSave
    [] op = "favorite" -> ErrFavorite
    [] op = "notes" -> ErrNotes

\* what the endpoint does with a body it accepts
ServerApply(coll, body) ==
  IF body.method = "POST"
  THEN Append(coll, SavedItem(Len(coll) + 1, FALSE, body.notes))
  ELSE [i \in 1..Len(coll) |->
         IF coll[i].id # body.id THEN coll[i]
         ELSE IF "is_favorite" \in DOMAIN body
           THEN [coll[i] EXCEPT !.is_favorite = body.is_favorite]
           ELSE [coll[i] EXCEPT !.notes = body.notes]]

\* a mutation that re-fetches only after a 2xx answer
RefetchesIfOk(result) == result = "ok"

\* whether the mutation goes on to fetchSavedSolutions(): the await resolved;
\* response.ok is not read
Refetches(result) == result # "neterr"

\* a mutation from the response on
MutationResponse(k, result) ==
  /\ k \in Pids
  /\ pers[k].st = "fetch"
  /\ server' = IF result = "ok" THEN ServerApply(server, pers[k].body)
                ELSE server
  /\ IF Refetches(result)
     THEN /\ notes' = IF pers[k].op = "create" THEN <<>> ELSE notes
          /\ fetching' = fetching + 1
          /\ pers' = [pers EXCEPT ![k] = [@ EXCEPT !.st = "done",
                                                   !.refetches = @ + 1]]
          /\ UNCHANGED error
     ELSE /\ error' = MutationError(pers[k].op)
          /\ pers' = [pers EXCEPT ![k] = [@ EXCEPT !.st = "done"]]
          /\ UNCHANGED <<notes, fetching>>
  /\ UNCHANGED <<uploadVars, snaps, prefVars, keyModel>>
  /\ UNCHANGED <<version, input, solution, loading, streamingResponse,
       history, mathTopic, showAlternativeMethods, alternativeSolutions,
       practiceProblems, showPractice, currentModel, savedSolutions, reqs,
       enrich, commits>>

(* ----------------------------- image path ----------------------------- *)

ImagePrefix == <<"i", "m", "a", "g", "e", "/">>

PngFile == [name |-> "photo.png", type |-> ImagePrefix \o <<"p", "n", "g">>]
TextFile ==
  [name |-> "notes.txt",
   type |-> <<"t", "e", "x", "t", "/", "p", "l", "a", "i", "n">>]
\* a file whose type is the word image without the slash
BareFile == [name |-> "image", type |-> <<"i", "m", "a", "g", "e">>]

\* the FileList of a drop event or of the file input
FileLists ==
  {<<>>, <<PngFile>>, <<TextFile>>, <<BareFile>>, <<TextFile, PngFile>>}

\* files[0]: undefined for an empty list
FirstFile(files) == IF files = <<>> THEN NoFile ELSE files[1]

\* String.prototype.startsWith
StartsWith(s, prefix) == OccursAt(s, prefix, 1)

\* URL.createObjectURL(f)
ObjectURL(f) == f.name

\* a drop handler that takes any file
IsAnyFile(f) == f # NoFile

\* droppedFile && droppedFile.type.startsWith("image/")
IsImageFile(f) == f # NoFile /\ StartsWith(f.type, ImagePrefix)

handleDrop(files) ==
  LET droppedFile == FirstFile(files) IN
  /\ dropped' = files
  /\ IF IsImageFile(droppedFile)
     THEN /\ file' = droppedFile
          /\ previewImage' = ObjectURL(droppedFile)
     ELSE UNCHANGED <<file, previewImage>>
  /\ UNCHANGED <<ups, savedVars, prefVars, keyModel>>
  /\ UNCHANGED <<version, input, solution, error, loading, streamingResponse,
       history, mathTopic, showAlternativeMethods, alternativeSolutions,
       practiceProblems, showPractice, currentModel, savedSolutions, reqs,
       enrich, fetching, commits>>

\* the onChange of the file input: if (e.target.files?.[0])
SelectFile(files) ==
  /\ files # <<>>
  /\ file' = files[1]
  /\ previewImage' = ObjectURL(files[1])
  /\ UNCHANGED <<ups, dropped, savedVars, prefVars, keyModel>>
  /\ UNCHANGED <<version, input, solution, error, loading, streamingResponse,
       history, mathTopic, showAlternativeMethods, alternativeSolutions,
       practiceProblems, showPractice, currentModel, savedSolutions, reqs,
       enrich, fetching, commits>>

\* the remove button on the preview, rendered while previewImage is truthy
RemoveImage ==
  /\ previewImage # Null
  /\ file' = NoFile
  /\ previewImage' = Null
  /\ UNCHANGED <<ups, dropped, savedVars, prefVars, keyModel>>
  /\ UNCHANGED <<version, input, solution, error, loading, streamingResponse,
       history, mathTopic, showAlternativeMethods, alternativeSolutions,
       practiceProblems, showPractice, currentModel, savedSolutions, reqs,
       enrich, fetching, commits>>

Uids == 1..Len(ups)

\* the loading flag of useUpload: an upload call is in flight
uploadLoading == \E u \in Uids : ups[u].st = "upload"

\* The record of one handleImageUpload invocation.  st: "upload" (awaiting
\* upload), "vision" (awaiting the transcription), "done".  file and env are
\* what its closure captured; url, solves and sent record what it did: the
\* upload URL it obtained, how often it called solveEquation and with what.
NewUpload ==
  [st |-> "upload", file |-> file, env |-> Closure, url |-> Null,
   solves |-> 0, sent |-> <<>>]

\* the Process Image button, rendered while file is truthy,
\* disabled={uploadLoading}: handleImageUpload up to its first await
handleImageUpload(limit) ==
  /\ file # NoFile
  /\ ~uploadLoading
  /\ Len(ups) < limit
  /\ ups' = Append(ups, NewUpload)
  /\ UNCHANGED <<file, previewImage, dropped, savedVars, prefVars, keyModel>>
  /\ UNCHANGED <<version, input, solution, error, loading, streamingResponse,
       history, mathTopic, showAlternativeMethods, alternativeSolutions,
       practiceProblems, showPractice, currentModel, savedSolutions, reqs,
       enrich, fetching, commits>>

SetUp(u, rec) == [ups EXCEPT ![u] = rec]

\* the catch block of handleImageUpload
ImageCatch(u) ==
  /\ error' = ErrImage
  /\ ups' = SetUp(u, [ups[u] EXCEPT !.st = "done"])
  /\ UNCHANGED <<file, previewImage, dropped, savedVars, prefVars, keyModel>>
  /\ UNCHANGED <<version, input, solution, loading, streamingResponse,
       history, mathTopic, showAlternativeMethods, alternativeSolutions,
       practiceProblems, showPractice, currentModel, savedSolutions, reqs,
       enrich, fetching, commits>>

\* upload({file}) yields {url} or {error}
UploadResults == {"error", "ok"}

\* handleImageUpload from the result of upload to the transcription request
UploadResponse(u, result) ==
  /\ u \in Uids
  /\ ups[u].st = "upload"
  /\ IF result = "error"
     THEN ImageCatch(u)
     ELSE /\ previewImage' = ObjectURL(ups[u].file)
          /\ ups' = SetUp(u, [ups[u] EXCEPT !.st = "vision",
                                            !.url = ups[u].file.name])
          /\ UNCHANGED <<file, dropped, savedVars, prefVars, keyModel>>
          /\ UNCHANGED <<version, input, solution, error, loading,
               streamingResponse, history, mathTopic, showAlternativeMethods,
               alternativeSolutions, practiceProblems, showPractice,
               currentModel, savedSolutions, reqs, enrich, fetching, commits>>

\* How the transcription round trip can end:
\*   "neterr"    fetch rejects
\*   "non2xx"    !response.ok
\*   "badjson"   response.json() rejects
\*   "nochoices" data.choices[0].message does not exist (TypeError)
\*   "nocontent" message exists but has no content property
\*   "text"      content is a string
VisionResults ==
  {"neterr", "non2xx", "badjson", "nochoices", "nocontent", "text"}

\* the try block of handleImageUpload throws after the upload
VisionThrows(result) == result \in {"neterr", "non2xx", "badjson", "nochoices"}

\* the strings a transcription returns
Transcripts == {<<>>, <<"2", "+", "2">>}

\* a handler that reads a property the response does not carry
EquationUndefined(result, content) == UndefinedText

\* data.choices[0].message.content
Equation(result, content) ==
  IF result = "text" THEN content ELSE UndefinedText

\* handleImageUpload from the transcription response on: setInput(equation)
\* and solveEquation(equation), the solveEquation of the render the handler
\* was created in
VisionResponse(u, result, content, limit) ==
  /\ u \in Uids
  /\ ups[u].st = "vision"
  /\ IF VisionThrows(result)
     THEN ImageCatch(u)
     ELSE /\ input' = Equation(result, content)
          /\ keyModel' = IF Equation(result, content) # input
                           THEN currentModel ELSE keyModel
          /\ solveEquationIn(Equation(result, content), limit, ups[u].env)
          /\ ups' = SetUp(u, [ups[u] EXCEPT
                         !.st = "done",
                         !.solves = @ + 1,
                         !.sent = Equation(result, content)])
          /\ UNCHANGED <<file, previewImage, dropped>>

(* ---------------------------- preferences ------------------------------ *)

\* whether an effect with the dependency list [theme, fontSize,
\* highContrast] runs again: never
DepsNeverChange(prev, next) == FALSE

\* whether an effect with the dependency list [theme, fontSize,
\* highContrast] runs again after a render: some dependency changed
DepsChanged(prev, next) == prev # next

\* the three preference cells of the current render
CurrentPrefs == Prefs(theme, fontSize, highContrast)

\* The effects of the first render, in their order: the mount effect calls
\* fetchSavedSolutions and restores the cells from loadPrefs(); the save
\* effect then runs with the values of the first render.
MountEffects ==
  /\ mounted = "rendered"
  /\ fetching' = fetching + 1
  /\ theme' = Restored(storage).theme
  /\ fontSize' = Restored(storage).fontSize
  /\ highContrast' = Restored(storage).highContrast
  /\ storage' = savePrefs(CurrentPrefs)
  /\ mounted' = "effects"
  /\ UNCHANGED <<uploadVars, savedVars, keyModel, storedAtMount>>
  /\ UNCHANGED <<version, input, solution, error, loading, streamingResponse,
       history, mathTopic, showAlternativeMethods, alternativeSolutions,
       practiceProblems, showPractice, currentModel, savedSolutions, reqs,
       enrich, commits>>

\* the render with the restored cells and the save effect after it; the
\* cells of the render before were the initial ones
RenderRestored ==
  /\ mounted = "effects"
  /\ storage' = IF DepsChanged(DefaultPrefs, CurrentPrefs)
                 THEN savePrefs(CurrentPrefs) ELSE storage
  /\ mounted' = "settled"
  /\ UNCHANGED <<uploadVars, savedVars, keyModel, storedAtMount, theme,
       fontSize, highContrast>>
  /\ UNCHANGED <<version, input, solution, error, loading, streamingResponse,
       history, mathTopic, showAlternativeMethods, alternativeSolutions,
       practiceProblems, showPractice, currentModel, savedSolutions, reqs,
       enrich, fetching, commits>>

\* a change in the settings panel: the cells after it; the render that
\* follows runs the save effect
ChangePrefs(next) ==
  /\ mounted = "settled"
  /\ next # CurrentPrefs
  /\ theme' = next.theme
  /\ fontSize' = next.fontSize
  /\ highContrast' = next.highContrast
  /\ storage' = IF DepsChanged(CurrentPrefs, next)
                 THEN savePrefs(next) ELSE storage
  /\ UNCHANGED <<uploadVars, savedVars, keyModel, storedAtMount, mounted>>
  /\ UNCHANGED <<version, input, solution, error, loading, streamingResponse,
       history, mathTopic, showAlternativeMethods, alternativeSolutions,
       practiceProblems, showPractice, currentModel, savedSolutions, reqs,
       enrich, fetching, commits>>

Themes == {"system", "light", "dark"}
FontSizes == {"sm", "base", "lg"}

\* the theme select, the font size select, the high contrast checkbox
SetTheme(t) == ChangePrefs([CurrentPrefs EXCEPT !.theme = t])
SetFontSize(f) == ChangePrefs([CurrentPrefs EXCEPT !.fontSize = f])
SetHighContrast(b) == ChangePrefs([CurrentPrefs EXCEPT !.highContrast = b])

\* The page is loaded again: the component is in its first render, its
\* effects not yet run; the stored item and the endpoint keep what they hold.
Reload ==
  /\ mounted = "settled"
  /\ input' = <<>>
  /\ solution' = NoSolution
  /\ error' = Null
  /\ loading' = FALSE
  /\ streamingResponse' = EmptyBuffer
  /\ history' = <<>>
  /\ mathTopic' = ""
  /\ showAlternativeMethods' = FALSE
  /\ alternativeSolutions' = List(<<>>)
  /\ practiceProblems' = List(<<>>)
  /\ showPractice' = FALSE
  /\ currentModel' = "gemini"
  /\ savedSolutions' = <<>>
  /\ reqs' = <<>>
  /\ enrich' = {}
  /\ fetching' = 0
  /\ commits' = <<>>
  /\ file' = NoFile
  /\ previewImage' = Null
  /\ ups' = <<>>
  /\ dropped' = <<>>
  /\ notes' = <<>>
  /\ pers' = <<>>
  /\ snaps' = <<>>
  /\ keyModel' = "gemini"
  /\ theme' = DefaultPrefs.theme
  /\ fontSize' = DefaultPrefs.fontSize
  /\ highContrast' = DefaultPrefs.highContrast
  /\ mounted' = "rendered"
  /\ storedAtMount' = storage
  /\ UNCHANGED <<version, server, storage>>

(* --------------------------- specifications --------------------------- *)

\* no solve request is awaiting its response or streaming
Quiet == \A r \in Rids : reqs[r].st \notin {"fetch", "stream"}

\* no request of any kind is outstanding
Settled == Quiet /\ enrich = {} /\ fetching = 0

\* Spec: every handler of the solve path, two solves, overlapping where the
\* version allows it; the user edits the input between solves.
TypeInput == \E t \in Texts : Quiet /\ SetInput(t)

ClearInput == Quiet /\ clearAll

Next ==
  \/ TypeInput
  \/ ClearInput
  \/ ClickSolve(MaxSolves)
  \/ CtrlEnter(MaxSolves)
  \/ \E r \in Rids : SolveResponseOk(r)
  \/ \E r \in Rids : \E msg \in SolveFailures : SolveResponseFail(r, msg)
  \/ \E r \in Rids : StreamChunk(r)
  \/ \E r \in Rids : StreamError(r, ErrNetwork)
  \/ \E r \in Rids : \E m \in Messages : StreamFinish(r, m)
  \/ \E e \in enrich : \E res \in EnrichResults : PracticeResponse(e, res)
  \/ \E e \in enrich : \E res \in EnrichResults : AlternativeResponse(e, res)
  \/ \E res \in FetchResults : FetchSavedResponse(res)

Spec == Init /\ [][Next]_vars

\* SpecHistory: one solve at a time, each started when the responses of the
\* one before have all arrived, so that a behaviour is long enough for the
\* history to fill and evict.
TypeWhenSettled == \E t \in Texts \ {<<>>} : Settled /\ SetInput(t)

SolveWhenSettled == Settled /\ ClickSolve(MaxHistorySolves)

HistoryMessages == {MsgValid, MsgNotJson, MsgNoAnswer}

NextHistory ==
  \/ TypeWhenSettled
  \/ SolveWhenSettled
  \/ \E r \in Rids : SolveResponseOk(r)
  \/ \E r \in Rids : \E m \in HistoryMessages : StreamFinish(r, m)
  \/ \E e \in enrich : PracticeResponse(e, "ok")
  \/ \E e \in enrich : AlternativeResponse(e, "ok")
  \/ FetchSavedResponse("ok")

SpecHistory == Init /\ [][NextHistory]_vars

\* SpecDrop: the selection of a file.  The user selects, drops and removes
\* files of every kind, clears the form, and presses Process Image; the
\* uploads are answered.
SelectAnyFile == \E files \in FileLists : SelectFile(files)

DropAnyFiles == \E files \in FileLists : handleDrop(files)

NextDrop ==
  \/ SelectAnyFile
  \/ DropAnyFiles
  \/ RemoveImage
  \/ TypeInput
  \/ ClearInput
  \/ handleImageUpload(MaxUploads)
  \/ \E u \in Uids : \E res \in UploadResults : UploadResponse(u, res)

SpecDrop == Init /\ [][NextDrop]_vars

\* SpecUpload: the image path from Process Image on.  The user selects an
\* image, removes it, presses Process Image, and edits the input while no
\* solve is in flight; the solves are the ones the transcriptions start.
SelectImage == SelectFile(<<PngFile>>)

UploadMessages == {MsgValid, MsgNotJson}

NextUpload ==
  \/ SelectImage
  \/ RemoveImage
  \/ handleImageUpload(MaxUploads)
  \/ \E u \in Uids : \E res \in UploadResults : UploadResponse(u, res)
  \/ \E u \in Uids : \E res \in VisionResults : \E c \in Transcripts :
       VisionResponse(u, res, c, MaxUploads)
  \/ TypeInput
  \/ ClearInput
  \/ \E r \in Rids : SolveResponseOk(r)
  \/ \E r \in Rids : \E m \in UploadMessages : StreamFinish(r, m)
  \/ \E e \in enrich : PracticeResponse(e, "ok")
  \/ \E e \in enrich : AlternativeResponse(e, "ok")

SpecUpload == Init /\ [][NextUpload]_vars

\* SpecSaved: the saved-solutions path.  One solve, so that there is a
\* Solution to save; the user types notes, saves, and toggles favorites and
\* edits notes of the cached items; every request is answered in every way.
ClickSave == solution # NoSolution /\ saveSolution(MaxMutations)

TypeNotes == \E t \in NoteTexts : SetNotes(t)

ClickFavorite ==
  \E i \in 1..Len(savedSolutions) :
    toggleFavorite(savedSolutions[i].id, savedSolutions[i].is_favorite,
                   MaxMutations)

EditSavedNotes ==
  \E i \in 1..Len(savedSolutions) : \E t \in NoteTexts :
    updateNotes(savedSolutions[i].id, t, MaxMutations)

NextSaved ==
  \/ TypeWhenSettled
  \/ ClickSolve(1)
  \/ \E r \in Rids : SolveResponseOk(r)
  \/ \E r \in Rids : StreamFinish(r, MsgValid)
  \/ \E e \in enrich : PracticeResponse(e, "ok")
  \/ \E e \in enrich : AlternativeResponse(e, "ok")
  \/ \E res \in FetchResults : FetchSavedResponse(res)
  \/ TypeNotes
  \/ ClickSave
  \/ ClickFavorite
  \/ EditSavedNotes
  \/ \E k \in Pids : \E res \in MutationResults : MutationResponse(k, res)

SpecSaved == Init /\ [][NextSaved]_vars

\* SpecTopic: detectMathTopic on every text made of up to MaxFragments
\* fragments: the text is in the input field and the user solves it.
Fragments ==
  {<<"=">>, <<"s", "i", "n">>, <<"c", "o", "s">>, <<"t", "a", "n">>,
   <<"x">>, <<" ">>, <<IntegralSign>>, <<"d", "/", "d", "x">>, <<RootSign>>,
   <<"%">>, <<"m", "a", "t", "r", "i", "x">>, <<"[">>}

RECURSIVE TextsOf(_)
TextsOf(n) ==
  IF n = 0 THEN {<<>>}
  ELSE TextsOf(n - 1) \cup {t \o f : t \in TextsOf(n - 1), f \in Fragments}

TopicTexts == TextsOf(MaxFragments)

InitTopic == \E t \in TopicTexts : InitWith(t)

NextTopic ==
  \/ ClickSolve(1)
  \/ CtrlEnter(1)

SpecTopic == InitTopic /\ [][NextTopic]_vars

\* SpecClean: cleanEquation on every final answer of up to MaxAnswerLen
\* characters: one solve of the content copy, whose response carries the
\* answer; the page renders the committed answer through cleanEquation.
RECURSIVE AnswersOf(_)
AnswersOf(n) ==
  IF n = 0 THEN {<<>>}
  ELSE AnswersOf(n - 1) \cup
       {Append(t, c) : t \in AnswersOf(n - 1), c \in AnswerChars}

AnswerTexts == AnswersOf(MaxAnswerLen)

AnswerMessage(a) == Payload(TRUE, TRUE, TRUE, SomeSteps, TRUE, a)

\* Final Answer: {cleanEquation(solution.final_answer)}
FinalAnswerShown == cleanEquation(solution.final_answer)

InitClean == InitWith(<<"x", "=", "1">>) /\ version = "content"

NextClean ==
  \/ ClickSolve(1)
  \/ \E r \in Rids : SolveResponseOk(r)
  \/ \E r \in Rids : \E a \in AnswerTexts : StreamFinish(r, AnswerMessage(a))

SpecClean == InitClean /\ [][NextClean]_vars

\* SpecModel: the model toggle and the solve path.  The user types, toggles
\* the model at any time, and solves with the button or with Ctrl+Enter.
NextModel ==
  \/ TypeInput
  \/ ToggleModel
  \/ ClickSolve(MaxSolves)
  \/ CtrlEnter(MaxSolves)
  \/ \E r \in Rids : SolveResponseOk(r)
  \/ \E r \in Rids : StreamFinish(r, MsgValid)
  \/ \E e \in enrich : PracticeResponse(e, "ok")
  \/ \E e \in enrich : AlternativeResponse(e, "ok")

SpecModel == Init /\ [][NextModel]_vars

\* SpecEdit: the user edits the input at any time, also while a solve is in
\* flight; every solve succeeds.
EditInput == \E t \in Texts : SetInput(t)

NextEdit ==
  \/ EditInput
  \/ ClickSolve(MaxSolves)
  \/ \E r \in Rids : SolveResponseOk(r)
  \/ \E r \in Rids : StreamFinish(r, MsgValid)
  \/ \E e \in enrich : PracticeResponse(e, "ok")
  \/ \E e \in enrich : AlternativeResponse(e, "ok")

SpecEdit == Init /\ [][NextEdit]_vars

\* SpecOrder: overlapping persistence requests that all succeed.  The user
\* toggles favorites and edits notes of the cached items; the endpoint
\* answers fetch-all requests at any time and the responses arrive in any
\* order.
NextOrder ==
  \/ FetchSavedResponse("ok")
  \/ ServerReadsAll
  \/ \E i \in 1..Len(snaps) : FetchSavedDelayed(i)
  \/ ClickFavorite
  \/ EditSavedNotes
  \/ \E k \in Pids : MutationResponse(k, "ok")

SpecOrder == Init /\ [][NextOrder]_vars

\* SpecPrefs: the preferences of the second MainComponent of content.js.
\* The item found at the first mount is anything a browser can hold under
\* the key; the user changes preferences and reloads the page.
StoredItems ==
  {OtherItem(k) : k \in {"absent", "garbage", "null"}} \cup
  {ObjectItem(keys, t, f, h) :
     keys \in SUBSET PrefKeys, t \in Themes, f \in FontSizes, h \in BOOLEAN}

InitPrefs ==
  /\ FirstRender(<<>>)
  /\ version = "content"
  /\ fetching = 0
  /\ storage \in StoredItems
  /\ mounted = "rendered"
  /\ storedAtMount = storage

NextPrefs ==
  \/ MountEffects
  \/ RenderRestored
  \/ \E t \in Themes : SetTheme(t)
  \/ \E f \in FontSizes : SetFontSize(f)
  \/ \E b \in BOOLEAN : SetHighContrast(b)
  \/ Reload

SpecPrefs == InitPrefs /\ [][NextPrefs]_vars

(* ------------------------------ claims -------------------------------- *)

\* the stream of request r completes with message m
Finishes(r, m) == r \in Rids /\ m \in Messages /\ StreamFinish(r, m)

\* m parses, and steps or final_answer is missing from what it parses to
MissingField(m) == m.json /\ (~m.obj \/ ~m.hasSteps \/ ~m.hasAnswer)

C2_MissingFieldReported ==
  [][\A r \in Rids : \A m \in Messages :
       (Finishes(r, m) /\ MissingField(m)) =>
         /\ error' = ErrIncomplete
         /\ solution' = solution
         /\ history' = history
         /\ commits' = commits
         /\ streamingResponse' = EmptyBuffer]_vars

\* C2 witness: a stream ended in a payload with a missing field while a
\* Solution and a history entry were held.
C2_Witness ==
  \E r \in Rids :
    /\ reqs[r].outcome = "incomplete"
    /\ error = ErrIncomplete
    /\ reqs[r].before # 0
    /\ solution.rid = reqs[r].before
    /\ history # <<>>
    /\ streamingResponse = EmptyBuffer

\* request r's stream ends in a parse failure or an incomplete payload
FailsToCommit(r, m) == Finishes(r, m) /\ (~m.json \/ MissingField(m))

C4_CommittedNonEmpty ==
  /\ solution # NoSolution =>
       solution.steps # <<>> /\ solution.final_answer # <<>>
  /\ \A i \in 1..Len(commits) :
       /\ commits[i].solution.steps # <<>>
       /\ commits[i].solution.final_answer # <<>>

\* C5: the history holds at most 5 entries, and it is the (up to) 5 most
\* recent entries of successful solves, in completion order.
C5_HistoryIsLastFive ==
  /\ Len(history) <= HistoryCap
  /\ history = SliceLast(commits, HistoryCap)
  /\ \A i \in 1..Len(commits) : \A j \in 1..Len(commits) :
       i < j => commits[i].timestamp < commits[j].timestamp

\* C5 witness: more than 5 solves succeeded, and the oldest entry is gone.
C5_Witness ==
  /\ Len(commits) > HistoryCap
  /\ Len(history) = HistoryCap
  /\ history[1] = commits[Len(commits) - HistoryCap + 1]
  /\ history[1] # commits[1]

\* request r committed a payload with non-empty steps and final_answer
ValidCommit(r, cs) ==
  \E i \in 1..Len(cs) :
    /\ cs[i].solution.rid = r
    /\ cs[i].solution.steps # <<>>
    /\ cs[i].solution.final_answer # <<>>

\* the solve operation of request r ends in this step, its stream having
\* completed with a valid payload
FinishesCommitted(r) ==
  /\ r \in Rids
  /\ reqs[r].st # "done"
  /\ reqs'[r].st = "done"
  /\ ValidCommit(r, commits')

\* C6: once a solve whose stream completed with a valid payload has
\* finished, the Solution state is the parsed payload, its HistoryEntry is
\* the last element of history, the buffer is empty and the error slot is
\* null.
C6_SuccessLeavesNoError ==
  [][\A r \in Rids :
       FinishesCommitted(r) =>
         /\ solution'.rid = r
         /\ history' # <<>>
         /\ history'[Len(history')].solution.rid = r
         /\ streamingResponse' = EmptyBuffer
         /\ error' = Null]_vars

\* C7: for every solve that committed a Solution, exactly one
\* practice-problems request and one alternative-methods request were issued.
C7_EnrichmentPerCommit ==
  \A r \in Rids :
    ValidCommit(r, commits) =>
      reqs[r].nPractice = 1 /\ reqs[r].nAlternative = 1

\* the ways an enrichment request fails: network error, non-2xx status, a
\* body that is no JSON, a response without the expected fields
FailedResults == {"neterr", "non2xx", "badjson", "nochoices", "nofield"}

\* C8: a failed enrichment request sets the error slot to that enrichment's
\* failure string and leaves the committed Solution and the history unchanged.
C8_EnrichmentFailureReported ==
  [][\A e \in enrich : \A res \in FailedResults :
       /\ PracticeResponse(e, res) =>
            error' = ErrPractice /\ solution' = solution /\ history' = history
       /\ AlternativeResponse(e, res) =>
            error' = ErrAlternative /\ solution' = solution
              /\ history' = history]_vars

\* the responses the enrichment code accepts and the ones it rejects
AcceptedResults == {"nofield", "ok"}
RejectedResults == {"neterr", "non2xx", "badjson", "nochoices"}

\* the cells neither enrichment writes on an accepted response
EnrichmentFrame ==
  <<version, input, solution, error, streamingResponse, history, mathTopic,
    currentModel, savedSolutions, fetching, commits>>

Blank(text) == \A i \in 1..Len(text) : text[i] \in Whitespace

\* C10: solveEquation with text whose trimmed form is empty sets the
\* please-enter-an-equation message, sends no request, and leaves loading,
\* Solution, history, buffer, topic and the enrichment flags unchanged.
C10_BlankInputRejected ==
  [][((ClickSolve(MaxSolves) \/ CtrlEnter(MaxSolves)) /\ Blank(input)) =>
       /\ error' = ErrEmptyInput
       /\ UNCHANGED <<loading, solution, history, streamingResponse,
            mathTopic, showPractice, showAlternativeMethods, reqs, enrich,
            fetching>>]_vars

\* C10 witness: a blank text was submitted while a Solution was shown, and
\* the Solution is still shown.
C10_Witness ==
  /\ error = ErrEmptyInput
  /\ input = <<" ">>
  /\ solution # NoSolution
  /\ history # <<>>
  /\ mathTopic = "Algebra"

\* C11: when the solve request is rejected by the transport or answered with
\* a non-2xx status, the error slot becomes the failure message, no Solution
\* is committed, the history is unchanged, no enrichment request is issued
\* and loading is false when the operation ends.
C11_TransportFailureReported ==
  [][\A r \in Rids : \A msg \in SolveFailures :
       SolveResponseFail(r, msg) =>
         /\ error' = msg
         /\ solution' = solution
         /\ history' = history
         /\ commits' = commits
         /\ enrich' = enrich
         /\ reqs'[r].nPractice = 0 /\ reqs'[r].nAlternative = 0
         /\ reqs'[r].st = "done"
         /\ loading' = FALSE]_vars

\* C11 witness: a solve started after an earlier success was answered with
\* status 500; the history of the earlier solve is still there.
C11_Witness ==
  \E r \in Rids :
    /\ reqs[r].st = "done"
    /\ reqs[r].outcome = "transport"
    /\ error = ErrStatus
    /\ ~loading
    /\ history # <<>>
    /\ solution = NoSolution
    /\ reqs[r].nPractice = 0

\* C12: no guard discards a superseded solve: whichever stream completes
\* with a valid payload commits its Solution and appends the last history
\* entry, also when a later request has been issued since.
C12_LastCompletionWins ==
  [][\A r \in Rids : \A m \in Messages :
       (Finishes(r, m) /\ OnFinishOutcome(m) = "committed") =>
         /\ solution' = Parsed(m, r)
         /\ history' # <<>>
         /\ history'[Len(history')].solution = Parsed(m, r)]_vars

\* C12 witness: two solves overlapped, the later one completed first, and
\* the current Solution and the last history entry belong to the earlier one.
C12_Witness ==
  /\ Len(reqs) = 2
  /\ reqs[1].st = "done" /\ reqs[2].st = "done"
  /\ reqs[2].outcome = "committed"
  /\ solution.rid = 1
  /\ Len(history) = 2
  /\ history[1].solution.rid = 2
  /\ history[2].solution.rid = 1

\* C13: in every state with a non-null preview, an upload of the previewed
\* file has returned a URL.
C13_PreviewOnlyAfterUpload ==
  previewImage # Null =>
    \E u \in Uids :
      /\ ups[u].url # Null
      /\ ObjectURL(ups[u].file) = previewImage

\* the transcription request of upload u is answered with the string c
Transcribes(u, c) ==
  u \in Uids /\ c \in Transcripts /\ VisionResponse(u, "text", c, MaxUploads)

\* C14: when the upload and the transcription both succeed, the input state
\* becomes the transcribed equation and solveEquation is invoked exactly
\* once, with that text, in the same step.
C14_TranscriptionSolved ==
  [][\A u \in Uids : \A c \in Transcripts :
       Transcribes(u, c) =>
         /\ input' = c
         /\ ups'[u].solves = 1
         /\ ups'[u].sent = c
         /\ ups[u].url # Null
         /\ IF Blank(c)
            THEN reqs' = reqs /\ error' = ErrEmptyInput
            ELSE /\ Len(reqs') = Len(reqs) + 1
                 /\ reqs'[Len(reqs')].text = c
                 /\ reqs'[Len(reqs')].st = "fetch"
                 /\ SubSeq(reqs', 1, Len(reqs)) = reqs
                 /\ loading']_vars

\* C14 witness: one image was processed; the input is its transcription and
\* the only solve request carries it.
C14_Witness ==
  /\ Len(ups) = 1
  /\ ups[1].st = "done"
  /\ ups[1].solves = 1
  /\ input = <<"2", "+", "2">>
  /\ Len(reqs) = 1
  /\ reqs[1].text = <<"2", "+", "2">>

\* the transcription results that are failures: the request throws, is
\* non-2xx, or lacks the expected content
FailedTranscriptions ==
  {"neterr", "non2xx", "badjson", "nochoices", "nocontent"}

\* C15: a failed upload or a failed transcription sets the one image error
\* message, leaves the input unchanged and starts no solve; after a failed
\* upload no transcription request is issued.
C15_ImageFailureReported ==
  [][\A u \in Uids :
       /\ UploadResponse(u, "error") =>
            /\ error' = ErrImage
            /\ input' = input
            /\ reqs' = reqs
            /\ ups'[u].st = "done"
       /\ \A res \in FailedTranscriptions : \A c \in Transcripts :
            VisionResponse(u, res, c, MaxUploads) =>
              /\ error' = ErrImage
              /\ input' = input
              /\ reqs' = reqs]_vars

\* C16: a drop whose first file has a type that does not start with image/,
\* or that carries no file, leaves the selected file and the preview
\* unchanged; a drop whose first file's type starts with image/ selects it.
C16_DropAcceptsImagesOnly ==
  [][\A files \in FileLists :
       handleDrop(files) =>
         IF files # <<>> /\ StartsWith(files[1].type, ImagePrefix)
         THEN file' = files[1]
         ELSE file' = file /\ previewImage' = previewImage]_vars

\* C16 witness: a text file was dropped while an image was selected, and the
\* image is still selected and previewed.
C16_Witness ==
  /\ dropped = <<TextFile>>
  /\ file = PngFile
  /\ previewImage = ObjectURL(PngFile)

\* C17: toggleFavorite(id, s) posts one PATCH body with the same id and
\* is_favorite = not s and issues no fetch-all yet; the fetch-all is issued,
\* once, in the step in which that request resolves.
C17_PatchThenRefetch ==
  [][/\ \A i \in 1..Len(savedSolutions) :
          LET item == savedSolutions[i] IN
          toggleFavorite(item.id, item.is_favorite, MaxMutations) =>
            /\ Len(pers') = Len(pers) + 1
            /\ SubSeq(pers', 1, Len(pers)) = pers
            /\ pers'[Len(pers')].body.method = "PATCH"
            /\ pers'[Len(pers')].body.id = item.id
            /\ pers'[Len(pers')].body.is_favorite = ~item.is_favorite
            /\ pers'[Len(pers')].refetches = 0
            /\ fetching' = fetching
     /\ \A k \in Pids :
          pers[k].op = "favorite" =>
            /\ pers'[k].body = pers[k].body
            /\ pers'[k].refetches # pers[k].refetches =>
                 /\ pers[k].st = "fetch"
                 /\ pers'[k].st = "done"
                 /\ pers[k].refetches = 0
                 /\ pers'[k].refetches = 1
                 /\ fetching' = fetching + 1]_vars

\* C17 witness: the favorite flag of item 1, cached as false, was toggled;
\* the PATCH carried true, its fetch-all was answered, and the cache shows
\* the item as favorite.
C17_Witness ==
  \E k \in Pids :
    /\ pers[k].op = "favorite"
    /\ pers[k].st = "done"
    /\ pers[k].body.id = 1
    /\ pers[k].body.is_favorite
    /\ pers[k].refetches = 1
    /\ fetching = 0
    /\ savedSolutions # <<>>
    /\ savedSolutions[1].is_favorite

\* the ways a mutation's request resolves
ResolvedResults == {"non2xx", "ok"}

\* C18: every mutation whose request resolves issues exactly one fetch-all
\* and does not write the cache; the cache changes only in a step that
\* receives a successful fetch-all response.
C18_MutationsRefetch ==
  [][/\ \A k \in Pids : \A res \in ResolvedResults :
          MutationResponse(k, res) =>
            /\ fetching' = fetching + 1
            /\ pers[k].refetches = 0
            /\ pers'[k].refetches = 1
            /\ savedSolutions' = savedSolutions
     /\ \A k \in Pids : pers'[k].refetches >= pers[k].refetches
     /\ savedSolutions' # savedSolutions => FetchSavedResponse("ok")]_vars

\* C18 witness: a solution was saved, the fetch-all that followed was
\* answered, and the cache holds the created item.
C18_Witness ==
  \E k \in Pids :
    /\ pers[k].op = "create"
    /\ pers[k].st = "done"
    /\ pers[k].refetches = 1
    /\ fetching = 0
    /\ Len(savedSolutions) = Len(ServerCollection) + 1

\* the ways a persistence request fails
FailedPersistence == {"neterr", "non2xx"}

\* C19: every persistence operation that ends in a network error or a
\* non-2xx response sets the error slot to that operation's failure message.
C19_PersistenceFailureReported ==
  [][/\ \A res \in FailedPersistence :
          FetchSavedResponse(res) => error' = ErrLoadSaved
     /\ \A k \in Pids : \A res \in FailedPersistence :
          MutationResponse(k, res) => error' = MutationError(pers[k].op)]_vars

\* the topic the ordered rules give when every rule is a substring test
FirstMatchingRule(s) ==
  IF Includes(s, <<"=">>) THEN "Algebra"
  ELSE IF \/ Includes(s, <<"s", "i", "n">>)
          \/ Includes(s, <<"c", "o", "s">>)
          \/ Includes(s, <<"t", "a", "n">>)
    THEN "Trigonometry"
  ELSE IF Includes(s, <<IntegralSign>>) \/ Includes(s, <<"d", "/", "d", "x">>)
    THEN "Calculus"
  ELSE IF Includes(s, <<RootSign>>) THEN "Roots"
  ELSE IF Includes(s, <<"%">>) THEN "Percentages"
  ELSE IF Includes(s, <<"m", "a", "t", "r", "i", "x">>) \/ Includes(s, <<"[">>)
    THEN "Matrices"
  ELSE "General Mathematics"

\* C20: detectMathTopic returns the topic of the first matching rule in the
\* order = , sin/cos/tan, integral sign or d/dx, root sign, %, matrix or [,
\* each rule matching when the input contains its token; the topic tag of a
\* solve is that topic for the text solved.
C20_FirstMatchingRule ==
  \A r \in Rids :
    /\ mathTopic = FirstMatchingRule(reqs[r].text)
    /\ Includes(reqs[r].text, <<"=">>) => mathTopic = "Algebra"

\* the tokens of the topic rules
TopicTokens ==
  {<<"=">>, <<"s", "i", "n">>, <<"c", "o", "s">>, <<"t", "a", "n">>,
   <<IntegralSign>>, <<"d", "/", "d", "x">>, <<RootSign>>, <<"%">>,
   <<"m", "a", "t", "r", "i", "x">>, <<"[">>}

\* C21: the topic tag of a solve is "General Mathematics" exactly when the
\* text solved is non-empty and contains none of the tokens of the rules.
C21_GeneralOnlyWithoutTokens ==
  \A r \in Rids :
    mathTopic = "General Mathematics" <=>
      /\ reqs[r].text # <<>>
      /\ \A tok \in TopicTokens : ~Includes(reqs[r].text, tok)

\* the characters cleanEquation is to remove
RemovedChars == {Backslash, "{", "}", "$"}

\* C22: the rendered final answer is the committed answer without its
\* backslashes, braces and dollar signs, the other characters in their
\* order; it contains none of the four characters, and cleaning it again
\* changes nothing.
C22_CleanEquationStrips ==
  solution # NoSolution =>
    /\ FinalAnswerShown =
         SelectSeq(solution.final_answer, LAMBDA c : c \notin RemovedChars)
    /\ \A i \in 1..Len(FinalAnswerShown) :
         FinalAnswerShown[i] \notin RemovedChars
    /\ cleanEquation(FinalAnswerShown) = FinalAnswerShown

\* C22 witness: a committed answer with two braces around a kept character
C22_Witness ==
  /\ solution # NoSolution
  /\ solution.final_answer = <<"{", "x", "}">>
  /\ FinalAnswerShown = <<"x">>

\* C23: currentModel is "gemini" or "gpt" and the toggle switches it; a
\* solve is dispatched to the endpoint of the value currentModel has when
\* solveEquation is invoked, and no later step changes the endpoint of a
\* dispatched solve.
C23_DispatchFollowsCurrentModel ==
  [][/\ currentModel' \in {"gemini", "gpt"}
     /\ ToggleModel => currentModel' # currentModel
     /\ \A r \in Rids : reqs'[r].endpoint = reqs[r].endpoint
     /\ Len(reqs') > Len(reqs) =>
          reqs'[Len(reqs')].endpoint = Endpoint(currentModel)]_vars

\* a solve is in flight: its request awaits the response or the stream
InFlight(r) == reqs[r].st \in {"fetch", "stream"}

\* C24: loading is true in every state in which at least one solve is in
\* flight.
C24_LoadingWhileInFlight == (\E r \in Rids : InFlight(r)) => loading

\* C25: whenever no solve is in flight the streaming buffer is empty.
C25_BufferEmptyWhenIdle ==
  (\A r \in Rids : ~InFlight(r)) => streamingResponse = EmptyBuffer

\* C26: every HistoryEntry records as its input the text that was passed to
\* the solveEquation call whose response it stores.
C26_HistoryRecordsTextSolved ==
  \A i \in 1..Len(commits) :
    commits[i].input = reqs[commits[i].solution.rid].text

\* C27: every enrichment request carries the problem text of the solve
\* request whose Solution triggered it.
C27_EnrichmentCarriesTextSolved ==
  \A e \in enrich : e.inp = reqs[e.owner].text

\* enrichment content that was generated for another solve than the one
\* whose Solution is committed
StaleFor(list, sol) ==
  list.defined /\ list.items # <<>> /\ list.items # <<sol.rid>>

\* C28: a step that starts a solve leaves both show flags false, and a show
\* flag is true only while the content it shows was generated for the
\* committed Solution.
C28_NoStaleEnrichmentShown ==
  [][/\ Len(reqs') > Len(reqs) =>
          ~showPractice' /\ ~showAlternativeMethods'
     /\ showPractice' => ~StaleFor(practiceProblems', solution')
     /\ showAlternativeMethods' =>
          ~StaleFor(alternativeSolutions', solution')]_vars

\* C29: when no persistence request is outstanding, all of them having
\* succeeded, the cached list equals the collection the endpoint holds.
C29_CacheMatchesServer ==
  (fetching = 0 /\ \A k \in Pids : pers[k].st = "done") =>
    savedSolutions = server

\* the values the claim expects after a mount that found item: the stored
\* ones, the defaults for what is absent or unreadable
Expected(item) ==
  Prefs(IF item.kind = "object" /\ "theme" \in item.keys
          THEN item.theme ELSE "system",
        IF item.kind = "object" /\ "fontSize" \in item.keys
          THEN item.fontSize ELSE "base",
        IF item.kind = "object" /\ "highContrast" \in item.keys
          THEN item.highContrast ELSE FALSE)

\* C30: the step in which the mount effects settle leaves theme, fontSize
\* and highContrast equal to the values stored before the mount, the
\* defaults for what was absent or unreadable; and whenever the effects have
\* settled the stored item holds the values of the three cells.
C30_PreferencesSurviveReload ==
  [][mounted' = "settled" =>
       /\ storage' = ObjectItem(PrefKeys, theme', fontSize', highContrast')
       /\ mounted # "settled" =>
            Prefs(theme', fontSize', highContrast') = Expected(storedAtMount)
    ]_vars

\* C30 witness: the page was reloaded with dark, large, high-contrast
\* preferences stored; the effects have settled and the cells and the item
\* hold them.
C30_Witness ==
  /\ mounted = "settled"
  /\ storedAtMount = ObjectItem(PrefKeys, "dark", "lg", TRUE)
  /\ CurrentPrefs = Prefs("dark", "lg", TRUE)
  /\ storage = storedAtMount

====
